---- MODULE Spec2Model ----
(***************************************************************************)
(* Model of rotors.go of the enigma package: the Rotor substitution        *)
(* (NewRotor, Step), the Reflector substitution (Reflect) and the two      *)
(* package-level catalogs Rotors and Reflectors.                           *)
(*                                                                         *)
(* A rune is modelled by its code point ('A' = 65 .. 'Z' = 90) and a Go    *)
(* string of ASCII letters by the tuple of its code points, so that ToInt, *)
(* ToChar, string indexing and strings.IndexRune are real conversions.     *)
(* Go strings are 0-indexed and TLA+ tuples 1-indexed: s[i] in Go is       *)
(* s[i + 1] here.                                                          *)
(***************************************************************************)
EXTENDS Integers, Sequences, FiniteSets, TLC

\* The modulus of the alphabet arithmetic in Step.
AlphabetSize == 26

\* The code point of 'A', the origin of the letter <-> position conversion.
CodeA == 65

Letters == CodeA .. (CodeA + AlphabetSize - 1)

Positions == 0 .. (AlphabetSize - 1)

\* ToInt: the zero-based alphabet position of a letter (A -> 0 .. Z -> 25).
ToInt(char) == char - CodeA

\* ToChar: the letter at a zero-based alphabet position.
ToChar(index) == index + CodeA

\* Go's % on int: the result has the sign of the dividend (truncated division).
GoMod(a, n) == IF a >= 0 THEN a % n ELSE -((-a) % n)

\* strings.IndexRune(s, c): the 0-based index of the first c in s, or -1.
IndexRune(s, c) ==
  IF \E i \in 1..Len(s) : s[i] = c
  THEN (CHOOSE i \in 1..Len(s) : s[i] = c /\ \A j \in 1..(i - 1) : s[j] # c) - 1
  ELSE -1

Range(s) == {s[i] : i \in 1..Len(s)}

\* A Go map[rune]bool read: a missing key reads as false.
MapGet(m, key) == IF key \in DOMAIN m THEN m[key] ELSE FALSE

(***************************************************************************)
(* Rotor                                                                   *)
(***************************************************************************)

\* A plausible slip: the loop stores false instead of true.
NewRotorNotchUnset(mapping, notch) ==
  [Sequence |-> mapping, Offset |-> 0, Ring |-> 0,
   Notch |-> [char \in Range(notch) |-> FALSE]]

\* NewRotor(mapping, notch): the notch letters become the keys of a map to
\* true; Offset and Ring start at 0.
NewRotor(mapping, notch) ==
  [Sequence |-> mapping, Offset |-> 0, Ring |-> 0,
   Notch |-> [char \in Range(notch) |-> TRUE]]

\* What one call r.Step(&letter, invert) leaves behind: the receiver, the
\* letter cell, whether the call panicked (index out of range), and the
\* intermediate values of the computation:
\*   pre1   the sum ToInt(*letter) - r.Ring + r.Offset + 26 before the modulo
\*   number the value of number after line 33
\*   n      the value of number after the branch
\*   pre2   the sum number + r.Ring - r.Offset + 26 before the modulo
StepResult(r, letter, invert, pre1, number, n, inRange) ==
  LET pre2 == n + r.Ring - r.Offset + AlphabetSize IN
  [rotor |-> r,
   letter |-> IF inRange THEN ToChar(GoMod(pre2, AlphabetSize)) ELSE letter,
   panicked |-> ~inRange,
   invert |-> invert, pre1 |-> pre1, number |-> number,
   n |-> IF inRange THEN n ELSE 0,
   pre2 |-> IF inRange THEN pre2 ELSE 0]

\* A plausible slip: the direction flag is ignored, the table is always read
\* forward.
StepIgnoreInvert(r, letter, invert) ==
  LET pre1 == ToInt(letter) - r.Ring + r.Offset + AlphabetSize
      number == GoMod(pre1, AlphabetSize)
      inRange == number \in 0..(Len(r.Sequence) - 1)
      n == IF inRange THEN ToInt(r.Sequence[number + 1]) ELSE 0
  IN StepResult(r, letter, invert, pre1, number, n, inRange)

\* A plausible slip: the two branches are swapped.
StepSwapped(r, letter, invert) ==
  LET pre1 == ToInt(letter) - r.Ring + r.Offset + AlphabetSize
      number == GoMod(pre1, AlphabetSize)
      inRange == invert => number \in 0..(Len(r.Sequence) - 1)
      n == IF ~invert
           THEN IndexRune(r.Sequence, ToChar(number))
           ELSE IF inRange THEN ToInt(r.Sequence[number + 1]) ELSE 0
  IN StepResult(r, letter, invert, pre1, number, n, inRange)

\* A plausible slip: the + 26 that keeps the sums non-negative is left out.
StepNoBias(r, letter, invert) ==
  LET pre1 == ToInt(letter) - r.Ring + r.Offset
      number == GoMod(pre1, AlphabetSize)
      inRange == (~invert) => number \in 0..(Len(r.Sequence) - 1)
      n == IF invert
           THEN IndexRune(r.Sequence, ToChar(number))
           ELSE IF inRange THEN ToInt(r.Sequence[number + 1]) ELSE 0
      res == StepResult(r, letter, invert, pre1, number, n, inRange)
      pre2 == n + r.Ring - r.Offset
  IN IF inRange
     THEN [res EXCEPT !.pre2 = pre2, !.letter = ToChar(GoMod(pre2, AlphabetSize))]
     ELSE res

\* A plausible slip: Step also turns the rotor.
StepAdvancing(r, letter, invert) ==
  LET pre1 == ToInt(letter) - r.Ring + r.Offset + AlphabetSize
      number == GoMod(pre1, AlphabetSize)
      inRange == (~invert) => number \in 0..(Len(r.Sequence) - 1)
      n == IF invert
           THEN IndexRune(r.Sequence, ToChar(number))
           ELSE IF inRange THEN ToInt(r.Sequence[number + 1]) ELSE 0
      res == StepResult(r, letter, invert, pre1, number, n, inRange)
  IN [res EXCEPT !.rotor.Offset = GoMod(r.Offset + 1, AlphabetSize)]

\* A plausible slip: the ring and offset are undone with the wrong sign.
StepWrongSign(r, letter, invert) ==
  LET pre1 == ToInt(letter) - r.Ring + r.Offset + AlphabetSize
      number == GoMod(pre1, AlphabetSize)
      inRange == (~invert) => number \in 0..(Len(r.Sequence) - 1)
      n == IF invert
           THEN IndexRune(r.Sequence, ToChar(number))
           ELSE IF inRange THEN ToInt(r.Sequence[number + 1]) ELSE 0
      res == StepResult(r, letter, invert, pre1, number, n, inRange)
      pre2 == n - r.Ring + r.Offset + AlphabetSize
  IN IF inRange
     THEN [res EXCEPT !.pre2 = pre2, !.letter = ToChar(GoMod(pre2, AlphabetSize))]
     ELSE res

\* r.Step(&letter, invert).  The forward branch indexes the string, which
\* panics when the index is outside it; the inverse branch searches it.
Step(r, letter, invert) ==
  LET pre1 == ToInt(letter) - r.Ring + r.Offset + AlphabetSize
      number == GoMod(pre1, AlphabetSize)
      inRange == (~invert) => number \in 0..(Len(r.Sequence) - 1)
      n == IF invert
           THEN IndexRune(r.Sequence, ToChar(number))
           ELSE IF inRange THEN ToInt(r.Sequence[number + 1]) ELSE 0
  IN StepResult(r, letter, invert, pre1, number, n, inRange)

(***************************************************************************)
(* Reflector                                                               *)
(***************************************************************************)

\* The composite literal Reflector{sequence}.
NewReflector(sequence) == [Sequence |-> sequence]

\* A plausible slip: the table is read forward instead of searched.
ReflectForward(r, letter) ==
  [reflector |-> r,
   letter |-> IF ToInt(letter) \in 0..(Len(r.Sequence) - 1)
              THEN r.Sequence[ToInt(letter) + 1] ELSE letter,
   n |-> ToInt(letter)]

\* r.Reflect(&letter): the letter whose alphabet position is the index of the
\* input letter in the wiring string.
Reflect(r, letter) ==
  LET n == IndexRune(r.Sequence, letter) IN
  [reflector |-> r, letter |-> ToChar(n), n |-> n]

(***************************************************************************)
(* The catalogs                                                            *)
(***************************************************************************)

\* A plausible slip: a mistyped last letter, "EKMFLGDQVZNTOWYHXUSPAIBRCE".
WiringITypo ==
  <<69, 75, 77, 70, 76, 71, 68, 81, 86, 90, 78, 84, 79, 87, 89, 72, 88, 85, 83, 80, 65, 73, 66, 82, 67, 69>>

\* "EKMFLGDQVZNTOWYHXUSPAIBRCJ"
WiringI ==
  <<69, 75, 77, 70, 76, 71, 68, 81, 86, 90, 78, 84, 79, 87, 89, 72, 88, 85, 83, 80, 65, 73, 66, 82, 67, 74>>

\* []rune{'Q'}
NotchI == <<81>>

\* "AJDKSIRUXBLHWTMCQGZNPYFVOE"
WiringII ==
  <<65, 74, 68, 75, 83, 73, 82, 85, 88, 66, 76, 72, 87, 84, 77, 67, 81, 71, 90, 78, 80, 89, 70, 86, 79, 69>>

\* []rune{'E'}
NotchII == <<69>>

\* "BDFHJLCPRTXVZNYEIWGAKMUSQO"
WiringIII ==
  <<66, 68, 70, 72, 74, 76, 67, 80, 82, 84, 88, 86, 90, 78, 89, 69, 73, 87, 71, 65, 75, 77, 85, 83, 81, 79>>

\* []rune{'V'}
NotchIII == <<86>>

\* "ESOVPZJAYQUIRHXLNFTGKDCMWB"
WiringIV ==
  <<69, 83, 79, 86, 80, 90, 74, 65, 89, 81, 85, 73, 82, 72, 88, 76, 78, 70, 84, 71, 75, 68, 67, 77, 87, 66>>

\* []rune{'J'}
NotchIV == <<74>>

\* "VZBRGITYUPSDNHLXAWMJQOFECK"
WiringV ==
  <<86, 90, 66, 82, 71, 73, 84, 89, 85, 80, 83, 68, 78, 72, 76, 88, 65, 87, 77, 74, 81, 79, 70, 69, 67, 75>>

\* []rune{'Z'}
NotchV == <<90>>

\* "JPGVOUMFYQBENHZRDKASXLICTW"
WiringVI ==
  <<74, 80, 71, 86, 79, 85, 77, 70, 89, 81, 66, 69, 78, 72, 90, 82, 68, 75, 65, 83, 88, 76, 73, 67, 84, 87>>

\* []rune{'Z', 'M'}
NotchVI == <<90, 77>>

\* "NZJHGRCXMYSWBOUFAIVLPEKQDT"
WiringVII ==
  <<78, 90, 74, 72, 71, 82, 67, 88, 77, 89, 83, 87, 66, 79, 85, 70, 65, 73, 86, 76, 80, 69, 75, 81, 68, 84>>

\* []rune{'Z', 'M'}
NotchVII == <<90, 77>>

\* "FKQHTLXOCBJSPDZRAMEWNIUYGV"
WiringVIII ==
  <<70, 75, 81, 72, 84, 76, 88, 79, 67, 66, 74, 83, 80, 68, 90, 82, 65, 77, 69, 87, 78, 73, 85, 89, 71, 86>>

\* []rune{'Z', 'M'}
NotchVIII == <<90, 77>>

\* "LEYJVCNIXWPBQMDRTAKZGFUHOS"
WiringBeta ==
  <<76, 69, 89, 74, 86, 67, 78, 73, 88, 87, 80, 66, 81, 77, 68, 82, 84, 65, 75, 90, 71, 70, 85, 72, 79, 83>>

\* []rune{}
NotchBeta == <<>>

\* "FSOKANUERHMBTIYCWLQPZXVGJD"
WiringGamma ==
  <<70, 83, 79, 75, 65, 78, 85, 69, 82, 72, 77, 66, 84, 73, 89, 67, 87, 76, 81, 80, 90, 88, 86, 71, 74, 68>>

\* []rune{}
NotchGamma == <<>>

\* "EJMZALYXVBWFCRQUONTSPIKHGD"
ReflectorA ==
  <<69, 74, 77, 90, 65, 76, 89, 88, 86, 66, 87, 70, 67, 82, 81, 85, 79, 78, 84, 83, 80, 73, 75, 72, 71, 68>>

\* A plausible slip: the first two letters transposed, "RYUHQSLDPXNGOKMIEBFZCWVJAT".
ReflectorBTypo ==
  <<82, 89, 85, 72, 81, 83, 76, 68, 80, 88, 78, 71, 79, 75, 77, 73, 69, 66, 70, 90, 67, 87, 86, 74, 65, 84>>

\* "YRUHQSLDPXNGOKMIEBFZCWVJAT"
ReflectorB ==
  <<89, 82, 85, 72, 81, 83, 76, 68, 80, 88, 78, 71, 79, 75, 77, 73, 69, 66, 70, 90, 67, 87, 86, 74, 65, 84>>

\* "FVPJIAOYEDRZXWGCTKUQSBNMHL"
ReflectorC ==
  <<70, 86, 80, 74, 73, 65, 79, 89, 69, 68, 82, 90, 88, 87, 71, 67, 84, 75, 85, 81, 83, 66, 78, 77, 72, 76>>

\* "ENKQAUYWJICOPBLMDXZVFTHRGS"
ReflectorBThin ==
  <<69, 78, 75, 81, 65, 85, 89, 87, 74, 73, 67, 79, 80, 66, 76, 77, 68, 88, 90, 86, 70, 84, 72, 82, 71, 83>>

\* "RDOBJNTKVEHMLFCWZAXGYIPSUQ"
ReflectorCThin ==
  <<82, 68, 79, 66, 74, 78, 84, 75, 86, 69, 72, 77, 76, 70, 67, 87, 90, 65, 88, 71, 89, 73, 80, 83, 85, 81>>

RotorIds == {"I", "II", "III", "IV", "V", "VI", "VII", "VIII", "Beta", "Gamma"}

ReflectorIds == {"A", "B", "C", "B-Thin", "C-Thin"}

\* var Rotors = map[string]Rotor{...}: the value of the package variable after
\* initialisation.
RotorsInit ==
  "I" :> NewRotor(WiringI, NotchI) @@
  "II" :> NewRotor(WiringII, NotchII) @@
  "III" :> NewRotor(WiringIII, NotchIII) @@
  "IV" :> NewRotor(WiringIV, NotchIV) @@
  "V" :> NewRotor(WiringV, NotchV) @@
  "VI" :> NewRotor(WiringVI, NotchVI) @@
  "VII" :> NewRotor(WiringVII, NotchVII) @@
  "VIII" :> NewRotor(WiringVIII, NotchVIII) @@
  "Beta" :> NewRotor(WiringBeta, NotchBeta) @@
  "Gamma" :> NewRotor(WiringGamma, NotchGamma)

\* var Reflectors = map[string]Reflector{...}.
ReflectorsInit ==
  "A" :> NewReflector(ReflectorA) @@
  "B" :> NewReflector(ReflectorB) @@
  "C" :> NewReflector(ReflectorC) @@
  "B-Thin" :> NewReflector(ReflectorBThin) @@
  "C-Thin" :> NewReflector(ReflectorCThin)

(***************************************************************************)
(* Bounds of the model                                                     *)
(***************************************************************************)

\* Rotor variables a session holds.
NumSlots == 2

\* Catalog rotors a session looks up: the first NumIds of SessionOrder.
NumIds == 1

\* A session sets Offset and Ring to values in 0..MaxSetting.
MaxSetting == 1

\* Calls made on one letter in the unit specification.
MaxCalls == 3

\* Custom reflector wirings permute the first PermLen letters of the alphabet.
PermLen == 3

(***************************************************************************)
(* State                                                                   *)
(***************************************************************************)
VARIABLES
  Rotors,       \* the package variable Rotors: identifier -> Rotor
  Reflectors,   \* the package variable Reflectors: identifier -> Reflector
  rotors,       \* the caller's Rotor variables: slot -> Rotor
  bound,        \* slot -> the storage the caller's variable designates
  reflector,    \* the caller's Reflector variable
  reflectorId,  \* the identifier it was looked up by, "custom" or "none"
  letter,       \* the caller's rune, passed by address to Step and Reflect
  input,        \* the value of letter before the first call
  calls,        \* the calls made, oldest first: what was called, on what, the result
  last          \* what the most recent call computed

vars ==
  <<Rotors, Reflectors, rotors, bound, reflector, reflectorId, letter, input,
    calls, last>>

\* The zero value of Rotor (a nil Notch map reads false for every key).
NoRotor == [Sequence |-> <<>>, Offset |-> 0, Ring |-> 0, Notch |-> <<>>]

\* The zero value of Reflector.
NoReflector == [Sequence |-> <<>>]

Unbound == [kind |-> "none", slot |-> 0, id |-> ""]

NoCall ==
  [op |-> "none", invert |-> FALSE, panicked |-> FALSE, pre1 |-> 0,
   number |-> 0, n |-> 0, pre2 |-> 0, result |-> FALSE]

\* A plausible slip: the catalog hands out its own entry (as a map of
\* *Rotor would), not a copy.
RetrieveShared(s, id) == [kind |-> "catalog", slot |-> s, id |-> id]

\* r := Rotors[id]: Rotors is a map of Rotor values, so indexing it copies the
\* entry into the caller's own variable.
Retrieve(s, id) == [kind |-> "local", slot |-> s, id |-> id]

\* Two designations of the same storage.
SameStorage(a, b) ==
  /\ a.kind = b.kind
  /\ a.kind = "local" => a.slot = b.slot
  /\ a.kind = "catalog" => a.id = b.id

\* The Rotor the caller's variable s designates.
Deref(s) == IF bound[s].kind = "catalog" THEN Rotors[bound[s].id] ELSE rotors[s]

\* An assignment through the caller's variable s.
Write(s, r) ==
  IF bound[s].kind = "catalog"
  THEN /\ Rotors' = [Rotors EXCEPT ![bound[s].id] = r]
       /\ rotors' = rotors
  ELSE /\ rotors' = [rotors EXCEPT ![s] = r]
       /\ Rotors' = Rotors

\* One entry of calls.
Call(op, from, to) == [op |-> op, from |-> from, to |-> to]

StepRecord(res) ==
  [op |-> "step", invert |-> res.invert, panicked |-> res.panicked,
   pre1 |-> res.pre1, number |-> res.number, n |-> res.n, pre2 |-> res.pre2,
   result |-> FALSE]

ReflectRecord(res) ==
  [op |-> "reflect", invert |-> FALSE, panicked |-> FALSE, pre1 |-> 0,
   number |-> 0, n |-> res.n, pre2 |-> 0, result |-> FALSE]

\* rotor.Step(&letter, invert) on the caller's variable s.
CallStep(s, invert) ==
  LET res == Step(Deref(s), letter, invert) IN
  /\ Write(s, res.rotor)
  /\ letter' = res.letter
  /\ last' = StepRecord(res)
  /\ UNCHANGED <<Reflectors, bound, reflector, reflectorId>>

\* reflector.Reflect(&letter) on the caller's Reflector variable.
CallReflect ==
  LET res == Reflect(reflector, letter) IN
  /\ reflector' = res.reflector
  /\ letter' = res.letter
  /\ last' = ReflectRecord(res)
  /\ UNCHANGED <<Rotors, Reflectors, rotors, bound, reflectorId>>

(***************************************************************************)
(* SpecStep: one rotor in any state, one letter, Step in both directions   *)
(* and the forward call followed by the inverse call.                      *)
(***************************************************************************)
InitStep ==
  /\ Rotors = RotorsInit
  /\ Reflectors = ReflectorsInit
  /\ \E id \in RotorIds, offset \in Positions, ring \in Positions :
       /\ rotors = <<[RotorsInit[id] EXCEPT !.Offset = offset, !.Ring = ring]>>
       /\ bound = <<Retrieve(1, id)>>
  /\ reflector = NoReflector
  /\ reflectorId = "none"
  /\ \E x \in Letters : letter = x /\ input = x
  /\ calls = <<>>
  /\ last = NoCall

StepForward ==
  /\ calls = <<>>
  /\ CallStep(1, FALSE)
  /\ calls' = Append(calls, Call("fwd", letter, letter'))
  /\ UNCHANGED input

StepInverse ==
  /\ calls = <<>> \/ (Len(calls) = 1 /\ calls[1].op = "fwd")
  /\ CallStep(1, TRUE)
  /\ calls' = Append(calls, Call("inv", letter, letter'))
  /\ UNCHANGED input

\* refl := Reflectors[id]; refl.Reflect(&letter)
StepReflect ==
  /\ calls = <<>>
  /\ \E id \in ReflectorIds :
       LET res == Reflect(Reflectors[id], letter) IN
       /\ reflector' = res.reflector
       /\ reflectorId' = id
       /\ letter' = res.letter
       /\ last' = ReflectRecord(res)
  /\ calls' = Append(calls, Call("reflect", letter, letter'))
  /\ UNCHANGED <<Rotors, Reflectors, rotors, bound, input>>

NextStep == StepForward \/ StepInverse \/ StepReflect

SpecStep == InitStep /\ [][NextStep]_vars

(***************************************************************************)
(* Spec: sessions that look rotors up in the catalog, set them up and step *)
(* the letter 'A' through them.  calls holds the operation just made when  *)
(* it was a lookup or a Step call.                                         *)
(***************************************************************************)
Slots == 1..NumSlots

SessionOrder == <<"I", "II", "III", "IV", "V", "VI", "VII", "VIII", "Beta", "Gamma">>

SessionIds == {SessionOrder[i] : i \in 1..NumIds}

Settings == 0..MaxSetting

Init ==
  /\ Rotors = RotorsInit
  /\ Reflectors = ReflectorsInit
  /\ rotors = [s \in Slots |-> NoRotor]
  /\ bound = [s \in Slots |-> Unbound]
  /\ reflector = NoReflector
  /\ reflectorId = "none"
  /\ letter = CodeA
  /\ input = CodeA
  /\ calls = <<>>
  /\ last = NoCall

\* r := Rotors[id]
Lookup(s, id) ==
  /\ bound' = [bound EXCEPT ![s] = Retrieve(s, id)]
  /\ rotors' = IF bound'[s].kind = "local"
               THEN [rotors EXCEPT ![s] = Rotors[id]]
               ELSE rotors
  /\ calls' = <<Call("lookup", s, 0)>>
  /\ last' = NoCall
  /\ UNCHANGED <<Rotors, Reflectors, reflector, reflectorId, letter, input>>

\* r.Offset = v
SetOffset(s, v) ==
  /\ bound[s].kind # "none"
  /\ Write(s, [Deref(s) EXCEPT !.Offset = v])
  /\ calls' = <<>>
  /\ last' = NoCall
  /\ UNCHANGED <<Reflectors, bound, reflector, reflectorId, letter, input>>

\* r.Ring = v
SetRing(s, v) ==
  /\ bound[s].kind # "none"
  /\ Write(s, [Deref(s) EXCEPT !.Ring = v])
  /\ calls' = <<>>
  /\ last' = NoCall
  /\ UNCHANGED <<Reflectors, bound, reflector, reflectorId, letter, input>>

\* l := 'A'; r.Step(&l, invert), with a rune l of the session's own: the
\* result is kept in calls.
SessionStep(s, invert) ==
  /\ bound[s].kind # "none"
  /\ LET res == Step(Deref(s), CodeA, invert) IN
       /\ Write(s, res.rotor)
       /\ last' = StepRecord(res)
       /\ calls' = <<Call(IF invert THEN "inv" ELSE "fwd", CodeA, res.letter)>>
  /\ UNCHANGED <<Reflectors, bound, reflector, reflectorId, letter, input>>

Next ==
  \/ \E s \in Slots, id \in SessionIds : Lookup(s, id)
  \/ \E s \in Slots, v \in Settings : SetOffset(s, v)
  \/ \E s \in Slots, v \in Settings : SetRing(s, v)
  \/ \E s \in Slots, invert \in BOOLEAN : SessionStep(s, invert)

Spec == Init /\ [][Next]_vars

(***************************************************************************)
(* SpecNotch: one catalog rotor that the stepping driver turns, with any   *)
(* ring setting, and the driver's notch test.                              *)
(***************************************************************************)

\* The notch test: is the letter at alphabet position Offset a notch letter.
AtNotch(r) == MapGet(r.Notch, ToChar(r.Offset))

\* The rotation: Offset advances by one, modulo 26.
Rotated(r) == [r EXCEPT !.Offset = GoMod(r.Offset + 1, AlphabetSize)]

InitNotch ==
  /\ Rotors = RotorsInit
  /\ Reflectors = ReflectorsInit
  /\ \E id \in RotorIds :
       /\ rotors = <<RotorsInit[id]>>
       /\ bound = <<Retrieve(1, id)>>
  /\ reflector = NoReflector
  /\ reflectorId = "none"
  /\ letter = CodeA
  /\ input = CodeA
  /\ calls = <<>>
  /\ last = NoCall

NotchRotate ==
  /\ Write(1, Rotated(Deref(1)))
  /\ calls' = <<Call("rotate", 1, 0)>>
  /\ last' = NoCall
  /\ UNCHANGED <<Reflectors, bound, reflector, reflectorId, letter, input>>

NotchSetRing ==
  /\ \E v \in Positions :
       /\ Write(1, [Deref(1) EXCEPT !.Ring = v])
       /\ calls' = <<Call("ring", 1, v)>>
  /\ last' = NoCall
  /\ UNCHANGED <<Reflectors, bound, reflector, reflectorId, letter, input>>

NotchTest ==
  /\ last' = [NoCall EXCEPT !.op = "notch", !.result = AtNotch(Deref(1))]
  /\ calls' = <<Call("notch", 1, 0)>>
  /\ UNCHANGED <<Rotors, Reflectors, rotors, bound, reflector, reflectorId, letter, input>>

NextNotch == NotchRotate \/ NotchSetRing \/ NotchTest

SpecNotch == InitNotch /\ [][NextNotch]_vars

(***************************************************************************)
(* SpecUnit: a freshly looked-up rotor and a reflector (a catalog one or a *)
(* custom wiring), and up to MaxCalls calls on one letter.                 *)
(***************************************************************************)

\* The orderings of the letters of S.
RECURSIVE Orderings(_)
Orderings(S) ==
  IF S = {} THEN {<<>>}
  ELSE UNION {{<<c>> \o rest : rest \in Orderings(S \ {c})} : c \in S}

\* The wirings that permute the first PermLen letters and fix the others.
CustomWirings ==
  {head \o [i \in 1..(AlphabetSize - PermLen) |-> ToChar(PermLen + i - 1)] :
     head \in Orderings(CodeA .. (CodeA + PermLen - 1))}

InitUnit ==
  /\ Rotors = RotorsInit
  /\ Reflectors = ReflectorsInit
  /\ \E id \in RotorIds :
       /\ rotors = <<RotorsInit[id]>>
       /\ bound = <<Retrieve(1, id)>>
  /\ \/ \E id \in ReflectorIds :
          /\ reflector = ReflectorsInit[id]
          /\ reflectorId = id
     \/ \E w \in CustomWirings :
          /\ reflector = NewReflector(w)
          /\ reflectorId = "custom"
  /\ \E x \in Letters : letter = x /\ input = x
  /\ calls = <<>>
  /\ last = NoCall

UnitStep ==
  /\ Len(calls) < MaxCalls
  /\ \E invert \in BOOLEAN :
       /\ CallStep(1, invert)
       /\ calls' = Append(calls, Call(IF invert THEN "inv" ELSE "fwd", letter, letter'))
  /\ UNCHANGED input

UnitReflect ==
  /\ Len(calls) < MaxCalls
  /\ CallReflect
  /\ calls' = Append(calls, Call("reflect", letter, letter'))
  /\ UNCHANGED input

NextUnit == UnitStep \/ UnitReflect

SpecUnit == InitUnit /\ [][NextUnit]_vars

(***************************************************************************)
(* SpecPass: the machine's pass with rotors III, II, I and reflector B at  *)
(* offset 0 and ring 0, without stepping: forward through the rotors, the  *)
(* reflector, back through the rotors; then the same again to decode.      *)
(***************************************************************************)

PassRotors == <<"III", "II", "I">>

\* One pass: the rotors in order with invert = false, Reflect, the rotors in
\* reverse order with invert = true.
PassStages ==
  [i \in 1..(2 * Len(PassRotors) + 1) |->
     IF i <= Len(PassRotors) THEN [op |-> "fwd", slot |-> i]
     ELSE IF i = Len(PassRotors) + 1 THEN [op |-> "reflect", slot |-> 0]
     ELSE [op |-> "inv", slot |-> 2 * Len(PassRotors) + 2 - i]]

\* Undoing a stage: the same rotor in the other direction, or Reflect again.
Undo(stage) ==
  [stage EXCEPT !.op = IF stage.op = "fwd" THEN "inv"
                       ELSE IF stage.op = "inv" THEN "fwd" ELSE "reflect"]

\* Decoding: each stage of the pass undone, last stage first.
DecodeStages ==
  [i \in 1..Len(PassStages) |-> Undo(PassStages[Len(PassStages) + 1 - i])]

EncodeDecode == PassStages \o DecodeStages

InitPass ==
  /\ Rotors = RotorsInit
  /\ Reflectors = ReflectorsInit
  /\ rotors = [s \in 1..Len(PassRotors) |-> RotorsInit[PassRotors[s]]]
  /\ bound = [s \in 1..Len(PassRotors) |-> Retrieve(s, PassRotors[s])]
  /\ reflector = ReflectorsInit["B"]
  /\ reflectorId = "B"
  /\ \E x \in Letters : letter = x /\ input = x
  /\ calls = <<>>
  /\ last = NoCall

PassStep ==
  /\ Len(calls) < Len(EncodeDecode)
  /\ LET stage == EncodeDecode[Len(calls) + 1] IN
       /\ stage.op # "reflect"
       /\ CallStep(stage.slot, stage.op = "inv")
       /\ calls' = Append(calls, Call(stage.op, letter, letter'))
  /\ UNCHANGED input

PassReflect ==
  /\ Len(calls) < Len(EncodeDecode)
  /\ LET stage == EncodeDecode[Len(calls) + 1] IN
       /\ stage.op = "reflect"
       /\ CallReflect
       /\ calls' = Append(calls, Call(stage.op, letter, letter'))
  /\ UNCHANGED input

NextPass == PassStep \/ PassReflect

SpecPass == InitPass /\ [][NextPass]_vars

(***************************************************************************)
(* Properties                                                              *)
(***************************************************************************)

\* Is s a permutation of the alphabet: 26 letters, every letter among them.
IsPermutation(s) == Len(s) = AlphabetSize /\ Range(s) = Letters

\* Is the permutation s its own inverse.
IsInvolution(s) ==
  \A i \in 1..Len(s) : s[ToInt(s[i]) + 1] = ToChar(i - 1)

\* C1 (SpecStep). Rotor round trip: for every catalog rotor, every Offset and
\* Ring in 0..25 and every letter x, Step(x, invert=false) followed by
\* Step(result, invert=true) on the same rotor state returns x.
RotorRoundTrip ==
  (Len(calls) = 2 /\ calls[1].op = "fwd" /\ calls[2].op = "inv")
    => (calls[2].from = calls[1].to /\ calls[2].to = calls[1].from /\ letter = input)

\* Rotor IV at Offset 5, Ring 17 has taken 'X' forward to another letter and
\* back.
RotorRoundTripWitness ==
  /\ Len(calls) = 2 /\ calls[1].op = "fwd" /\ calls[2].op = "inv"
  /\ bound[1].id = "IV" /\ rotors[1].Offset = 5 /\ rotors[1].Ring = 17
  /\ input = 88 /\ calls[1].to # 88 /\ letter = 88

\* C2 (SpecUnit). Reflector involution: for every catalog reflector and every
\* letter x, Reflect applied to x and then to the output returns x.
ReflectorInvolution ==
  \A i \in 1..(Len(calls) - 1) :
    (reflectorId \in ReflectorIds /\ calls[i].op = "reflect" /\ calls[i + 1].op = "reflect")
      => calls[i + 1].to = calls[i].from

\* Reflector C-Thin has taken 'K' to another letter and back.
ReflectorInvolutionWitness ==
  /\ reflectorId = "C-Thin" /\ Len(calls) = 2
  /\ calls[1].op = "reflect" /\ calls[2].op = "reflect"
  /\ input = 75 /\ calls[1].to # 75 /\ letter = 75

\* C3 (Spec). Permutation closure: every entry of the Rotors catalog (I..VIII,
\* Beta, Gamma) has a Sequence of length 26 that contains each of the letters
\* A..Z exactly once.
PermutationClosure ==
  /\ DOMAIN Rotors = RotorIds
  /\ \A id \in RotorIds :
       /\ Len(Rotors[id].Sequence) = AlphabetSize
       /\ \A c \in Letters :
            Cardinality({i \in 1..Len(Rotors[id].Sequence) : Rotors[id].Sequence[i] = c}) = 1

\* The catalog holds its ten permutations after a session has retrieved its
\* rotors, set one up and stepped a letter through it.
PermutationClosureWitness ==
  /\ Cardinality(DOMAIN Rotors) = 10
  /\ \A id \in RotorIds : Range(Rotors[id].Sequence) = Letters
  /\ \A s \in Slots : bound[s].kind # "none"
  /\ rotors[1].Offset = 1
  /\ last.op = "step"

\* C4 as stated (SpecUnit). Reflect is a forward table lookup: for every
\* reflector wiring that is a permutation of A..Z and every letter x,
\* Reflect(x) returns Sequence[ToInt(x)].
ReflectIsForwardLookup ==
  \A i \in 1..Len(calls) :
    (calls[i].op = "reflect" /\ IsPermutation(reflector.Sequence))
      => calls[i].to = reflector.Sequence[ToInt(calls[i].from) + 1]

\* C4 as amended (SpecUnit). For every reflector wiring that is a permutation
\* of A..Z and every letter x, Reflect(x) returns the letter at whose table
\* index x is stored (Sequence[ToInt(Reflect(x))] = x); when the wiring is
\* also an involution, as the five catalog wirings are, that letter is
\* Sequence[ToInt(x)].
ReflectIsInverseLookup ==
  /\ \A id \in ReflectorIds : IsInvolution(ReflectorsInit[id].Sequence)
  /\ \A i \in 1..Len(calls) :
       (calls[i].op = "reflect" /\ IsPermutation(reflector.Sequence))
         => /\ calls[i].to \in Letters
            /\ reflector.Sequence[ToInt(calls[i].to) + 1] = calls[i].from
            /\ IsInvolution(reflector.Sequence)
                 => calls[i].to = reflector.Sequence[ToInt(calls[i].from) + 1]

\* A custom wiring that is a permutation and no involution has reflected a
\* letter to the one whose table entry is that letter, which is not the table
\* entry of the letter itself.
ReflectIsInverseLookupWitness ==
  /\ reflectorId = "custom"
  /\ IsPermutation(reflector.Sequence) /\ ~IsInvolution(reflector.Sequence)
  /\ Len(calls) = 1 /\ calls[1].op = "reflect"
  /\ reflector.Sequence[ToInt(letter) + 1] = input
  /\ letter # reflector.Sequence[ToInt(input) + 1]

\* C5 (SpecUnit). Known answers: catalog rotor I at Offset 0, Ring 0 steps 'A'
\* forward to 'E'; catalog reflector B reflects 'A' to 'Y'.
KnownAnswer ==
  \A i \in 1..Len(calls) :
    /\ (/\ calls[i].op = "fwd" /\ calls[i].from = 65
        /\ bound[1].id = "I" /\ Deref(1).Offset = 0 /\ Deref(1).Ring = 0)
         => calls[i].to = 69
    /\ (calls[i].op = "reflect" /\ calls[i].from = 65 /\ reflectorId = "B")
         => calls[i].to = 89

\* Reflector B has reflected 'A' to 'Y' and back, and rotor I has then
\* stepped that 'A' forward to 'E'.
KnownAnswerWitness ==
  /\ bound[1].id = "I" /\ Deref(1).Offset = 0 /\ Deref(1).Ring = 0
  /\ reflectorId = "B"
  /\ Len(calls) = 3
  /\ calls[1] = Call("reflect", 65, 89)
  /\ calls[3] = Call("fwd", 65, 69)

\* C6 (SpecPass). Full-pass self-consistency: with rotors III, II, I and
\* reflector B at offset 0 and ring 0 and no stepping, a letter encoded by one
\* pass and then decoded with the same state, each stage undone in reverse
\* order, is the letter that went in.
FullPassSelfConsistent ==
  Len(calls) = Len(EncodeDecode) => letter = input

\* 'A' has been encoded to another letter and decoded back to 'A', through
\* the fourteen stages.
FullPassWitness ==
  /\ Len(calls) = 14
  /\ input = 65
  /\ calls[7].to # 65
  /\ calls[8].from = calls[7].to
  /\ \A i \in 1..14 : calls[i].op = EncodeDecode[i].op
  /\ letter = 65

\* C7 (SpecNotch). Notch correctness: the notch set NewRotor builds for catalog
\* rotor I is exactly {Q}, and the notch test is true exactly when Offset = 16,
\* whatever the ring.
NotchCorrect ==
  bound[1].id = "I"
    => /\ {c \in Letters : MapGet(Deref(1).Notch, c)} = {81}
       /\ last.op = "notch" => (last.result <=> Deref(1).Offset = 16)

\* Rotor I, turned to Offset 16 with Ring 5, has tested true.
NotchCorrectWitness ==
  /\ bound[1].id = "I"
  /\ Deref(1).Offset = 16 /\ Deref(1).Ring = 5
  /\ last.op = "notch" /\ last.result

\* C8 (Spec). Catalog isolation: after any lookups, changes to Offset or Ring
\* of the retrieved rotors and Step calls on them, every catalog entry still
\* has Offset 0, Ring 0 and its original Sequence; a lookup yields a rotor
\* with Offset 0 and Ring 0; no two retrieved rotors share storage.
CatalogIsolation ==
  /\ \A id \in RotorIds :
       /\ Rotors[id].Offset = 0
       /\ Rotors[id].Ring = 0
       /\ Rotors[id].Sequence = RotorsInit[id].Sequence
  /\ (Len(calls) = 1 /\ calls[1].op = "lookup")
       => (Deref(calls[1].from).Offset = 0 /\ Deref(calls[1].from).Ring = 0)
  /\ \A s, t \in Slots :
       (s # t /\ bound[s].kind # "none" /\ bound[t].kind # "none")
         => ~SameStorage(bound[s], bound[t])

\* Rotor I was retrieved and set to Offset 1, Ring 1; a later lookup of I has
\* just yielded a rotor at Offset 0, Ring 0.
CatalogIsolationWitness ==
  /\ bound[1].id = "I" /\ Deref(1).Offset = 1 /\ Deref(1).Ring = 1
  /\ calls = <<Call("lookup", 2, 0)>>
  /\ bound[2].id = "I" /\ Deref(2).Offset = 0 /\ Deref(2).Ring = 0
  /\ Rotors["I"].Offset = 0 /\ Rotors["I"].Ring = 0

\* C9 (SpecStep). Step and Reflect change only the letter: a Step call leaves
\* the rotor's Sequence, Offset, Ring and Notch (and the catalog) as they
\* were, and a Reflect call leaves the reflector's Sequence as it was.
StepAndReflectFrame ==
  [][/\ last'.op = "step" => (rotors' = rotors /\ Rotors' = Rotors)
     /\ last'.op = "reflect"
          => /\ reflector'.Sequence = Reflectors[reflectorId'].Sequence
             /\ Reflectors' = Reflectors]_vars

\* Rotor V at Offset 3, Ring 7 has taken a letter backward to another letter
\* and is still rotor V at Offset 3, Ring 7.
StepAndReflectFrameWitness ==
  /\ Len(calls) = 1 /\ calls[1].op = "inv" /\ letter # input
  /\ rotors[1] = [RotorsInit["V"] EXCEPT !.Offset = 3, !.Ring = 7]

\* C10 (SpecStep). Step has no error outcome for in-range input: both sums
\* are non-negative before the modulo, the forward branch reads Sequence at
\* an index in 0..25, the inverse lookup finds the letter (never -1), and the
\* output is a letter A..Z.
StepInRange ==
  last.op = "step"
    => /\ ~last.panicked
       /\ last.pre1 >= 0
       /\ last.pre2 >= 0
       /\ last.number \in Positions
       /\ last.invert => last.n # -1
       /\ last.n \in Positions
       /\ letter \in Letters

\* The smallest first sum, 1 ('A' with Ring 25 and Offset 0), in an inverse
\* call that found the letter.
StepInRangeWitness ==
  /\ last.op = "step" /\ last.invert /\ ~last.panicked
  /\ last.pre1 = 1
  /\ rotors[1].Ring = 25 /\ rotors[1].Offset = 0
  /\ last.n \in Positions

====
